---- MODULE Spec2Model ----
(***************************************************************************)
(* A model of the notebook "Graph Neural Networks-solution.ipynb": the     *)
(* dense adjacency built from data.edge_index, the two hand-written        *)
(* GCNLayer classes (raw sum, symmetric normalisation), the GNN wrappers,  *)
(* the library-layer GNN that reads the global `data`, and the graph-level *)
(* GNN with its pooling helper `extract`.                                  *)
(*                                                                         *)
(* Tensors hold exact numbers here: a number is a finite sum of            *)
(* q * sqrt(s), q rational and s square-free, so torch.sqrt and            *)
(* torch.inverse of the degree matrix are computed, not abstracted.        *)
(* Floating-point rounding is not modelled.                                *)
(***************************************************************************)
EXTENDS Integers, Sequences, FiniteSets, TLC

(***************************************************************************)
(* Bounds of the model.                                                    *)
(***************************************************************************)
MaxNodes == 3
InputDim == 1
OutputDim == 2
MidDim == 2

\* the result of a call: a value, or the exception it raised
Ok(v) == [ok |-> TRUE, exc |-> "", val |-> v]
Fail(e) == [ok |-> FALSE, exc |-> e, val |-> << >>]

(***************************************************************************)
(* Exact arithmetic.  A rational is <<n, d>> in lowest terms with d > 0.   *)
(* A number is a function from square-free radicands to non-zero           *)
(* rationals: [s |-> q] stands for the sum of q * sqrt(s).                 *)
(***************************************************************************)
Abs(a) == IF a < 0 THEN -a ELSE a

RECURSIVE GCD(_, _)
GCD(a, b) == IF b = 0 THEN a ELSE GCD(b, a % b)

Rat(n, d) ==
  LET g == GCD(Abs(n), Abs(d))
      s == IF d < 0 THEN -1 ELSE 1
  IN  <<(s * n) \div g, (s * d) \div g>>

RatAdd(p, q) == Rat(p[1] * q[2] + q[1] * p[2], p[2] * q[2])
RatMul(p, q) == Rat(p[1] * q[1], p[2] * q[2])

\* the largest k with k*k dividing n (n >= 1)
RECURSIVE SquarePartFrom(_, _)
SquarePartFrom(n, k) ==
  IF k * k <= n /\ n % (k * k) = 0 THEN k ELSE SquarePartFrom(n, k - 1)
SquarePart(n) == SquarePartFrom(n, n)
SquareFree(n) == n \div (SquarePart(n) * SquarePart(n))

Zero == << >>
Coef(a, r) == IF r \in DOMAIN a THEN a[r] ELSE <<0, 1>>
NumRat(q) == IF q[1] = 0 THEN Zero ELSE [r \in {1} |-> q]
NumInt(k) == NumRat(<<k, 1>>)

NumAdd(a, b) ==
  IF DOMAIN a = {} THEN b
  ELSE IF DOMAIN b = {} THEN a
  ELSE LET c == [r \in DOMAIN a \cup DOMAIN b |-> RatAdd(Coef(a, r), Coef(b, r))]
       IN  [r \in {s \in DOMAIN c : c[s][1] # 0} |-> c[r]]

\* one product term: a[s]*sqrt(s) * b[t]*sqrt(t)
TermMul(a, b, s, t) ==
  LET k == SquarePart(s * t)
      q == RatMul(RatMul(a[s], b[t]), <<k, 1>>)
  IN  [r \in {(s * t) \div (k * k)} |-> q]

RECURSIVE SumTerms(_, _, _)
SumTerms(P, a, b) ==
  IF P = {} THEN Zero
  ELSE LET p == CHOOSE e \in P : TRUE
       IN  NumAdd(TermMul(a, b, p[1], p[2]), SumTerms(P \ {p}, a, b))

NumMul(a, b) ==
  IF DOMAIN a = {} \/ DOMAIN b = {} THEN Zero
  ELSE SumTerms((DOMAIN a) \X (DOMAIN b), a, b)

\* torch.sqrt of a non-negative integer entry
NumSqrt(k) ==
  IF k = 0 THEN Zero ELSE [r \in {SquareFree(k)} |-> <<SquarePart(k), 1>>]

\* 1 / (q * sqrt(s)) = sqrt(s) / (q * s), for a one-term number
NumRecip(a) ==
  LET s == CHOOSE r \in DOMAIN a : TRUE
  IN  [r \in {s} |-> Rat(a[s][2], a[s][1] * s)]

IntAdd(a, b) == a + b
IntMul(a, b) == a * b

(***************************************************************************)
(* Tensors.  A matrix is a function from row index 0..n-1 to a function    *)
(* from column index 0..m-1 to an entry; a vector is one such function.    *)
(***************************************************************************)
Ix(n) == 0..(n - 1)
Rows(M) == Cardinality(DOMAIN M)
Cols(M) == IF Rows(M) = 0 THEN 0 ELSE Cardinality(DOMAIN M[0])

\* the inner product of row i of A and column j of B, over k = 0..n-1
Dot(A, i, B, j, n, Add(_, _), Mul(_, _)) ==
  LET acc[k \in Ix(n)] ==
        IF k = 0 THEN Mul(A[i][0], B[0][j])
        ELSE Add(acc[k - 1], Mul(A[i][k], B[k][j]))
  IN  acc[n - 1]

\* torch.matmul of two 2-D tensors raises unless the inner sizes agree
MatMulOk(A, B) == Cols(A) = Rows(B)

MatMulG(A, B, Add(_, _), Mul(_, _), zero) ==
  [i \in DOMAIN A |->
    [j \in Ix(Cols(B)) |->
      IF Cols(A) = 0 THEN zero ELSE Dot(A, i, B, j, Cols(A), Add, Mul)]]

MatMulInt(A, B) == MatMulG(A, B, IntAdd, IntMul, 0)
MatMulNum(A, B) == MatMulG(A, B, NumAdd, NumMul, Zero)

ToNum(M) == [i \in DOMAIN M |-> [j \in DOMAIN M[i] |-> NumInt(M[i][j])]]

\* nn.Linear / F.linear: x W^T + b, W of shape out x in, b of length out
LinearG(x, W, b, Add(_, _), Mul(_, _)) ==
  [i \in DOMAIN x |->
    [o \in DOMAIN W |->
      LET acc[k \in Ix(Cols(W))] ==
            IF k = 0 THEN Mul(x[i][0], W[o][0])
            ELSE Add(acc[k - 1], Mul(x[i][k], W[o][k]))
      IN  Add(acc[Cols(W) - 1], b[o])]]

LinearInt(x, W, b) == LinearG(x, W, b, IntAdd, IntMul)
LinearNum(x, W, b) ==
  LinearG(x, ToNum(W), [o \in DOMAIN b |-> NumInt(b[o])], NumAdd, NumMul)

(***************************************************************************)
(* The inputs: graphs as PyG stores them (data.edge_index is a list of     *)
(* directed pairs, data.x has one row per node), drawn from a small        *)
(* family: every undirected simple graph on up to MaxNodes nodes, stored   *)
(* in both directions, in one direction only, with a repeated pair, or     *)
(* with a self-loop; and the 5-node ring of the specification's scenario.  *)
(***************************************************************************)
Pairs(n) == {p \in Ix(n) \X Ix(n) : p[1] < p[2]}

\* the pairs of S in lexicographic order
RECURSIVE SortedSeq(_)
SortedSeq(S) ==
  IF S = {} THEN << >>
  ELSE LET m == CHOOSE p \in S :
                  \A q \in S : p[1] < q[1] \/ (p[1] = q[1] /\ p[2] <= q[2])
       IN  <<m>> \o SortedSeq(S \ {m})

Flip(L) == [e \in DOMAIN L |-> <<L[e][2], L[e][1]>>]

EdgeLists(n) ==
  UNION {LET one == SortedSeq(S)
             both == one \o Flip(one)
         IN  {one, both,
              IF one = << >> THEN both ELSE Append(both, one[1]),
              Append(both, <<0, 0>>)} : S \in SUBSET Pairs(n)}

RingEdges == <<<<0, 1>>, <<1, 2>>, <<2, 3>>, <<3, 4>>, <<4, 0>>>>
RingNodes == Len(RingEdges)

Unit(n, d, i, c) ==
  [r \in Ix(n) |-> [k \in Ix(d) |-> IF r = i /\ k = c THEN 1 ELSE 0]]
Ones(n, d) == [r \in Ix(n) |-> [k \in Ix(d) |-> 1]]
Ramp(n, d) == [r \in Ix(n) |-> [k \in Ix(d) |-> r + k + 1]]
Features(n, d) ==
  {Unit(n, d, i, c) : i \in Ix(n), c \in Ix(d)} \cup {Ones(n, d), Ramp(n, d)}

\* a Data object; ptr is the batch boundary vector of a Batch (none for Cora)
Graph(n, L, x, ptr) == [num_nodes |-> n, edge_index |-> L, x |-> x, ptr |-> ptr]

Datasets ==
  UNION {{Graph(n, L, x, << >>) : L \in EdgeLists(n), x \in Features(n, InputDim)} :
           n \in 1..MaxNodes}
  \cup {Graph(RingNodes, L, Ones(RingNodes, InputDim), << >>) :
          L \in {RingEdges, RingEdges \o Flip(RingEdges)}}

(***************************************************************************)
(* torch_geometric.utils.to_dense_adj(edge_index)[0]: the matrix has one   *)
(* row per index up to the largest one in edge_index, and entry [i][j] is  *)
(* the scatter-sum of a one per occurrence of the pair (i, j).             *)
(***************************************************************************)
MaxIndex(L) ==
  CHOOSE m \in {L[e][1] : e \in DOMAIN L} \cup {L[e][2] : e \in DOMAIN L} :
    \A e \in DOMAIN L : L[e][1] <= m /\ L[e][2] <= m

\* the builder C4 describes: a one wherever the pair is stored either way
to_dense_adj_Symmetric(edge_index) ==
  LET N == IF Len(edge_index) = 0 THEN 0 ELSE MaxIndex(edge_index) + 1
  IN  [i \in Ix(N) |->
        [j \in Ix(N) |->
          IF \E e \in DOMAIN edge_index :
               edge_index[e] = <<i, j>> \/ edge_index[e] = <<j, i>>
          THEN 1 ELSE 0]]

\* the builder C5 describes: entries saturate at one
to_dense_adj_Saturating(edge_index) ==
  LET N == IF Len(edge_index) = 0 THEN 0 ELSE MaxIndex(edge_index) + 1
  IN  [i \in Ix(N) |->
        [j \in Ix(N) |->
          IF \E e \in DOMAIN edge_index : edge_index[e] = <<i, j>> THEN 1 ELSE 0]]

to_dense_adj(edge_index) ==
  LET N == IF Len(edge_index) = 0 THEN 0 ELSE MaxIndex(edge_index) + 1
  IN  [i \in Ix(N) |->
        [j \in Ix(N) |->
          Cardinality({e \in DOMAIN edge_index : edge_index[e] = <<i, j>>})]]

(***************************************************************************)
(* Learned parameters: nn.Linear(input_dim, output_dim) holds a weight of  *)
(* shape out x in and a bias of length out (bias=True is the default).     *)
(* Their initial values are random and the optimiser changes them, so a    *)
(* parameter value is any member of a small family.                        *)
(***************************************************************************)
WeightValues == {1, 2}
BiasValues == {0, 1}

Theta(out, in, w, c) ==
  [W |-> [o \in Ix(out) |-> [k \in Ix(in) |-> IF o = k THEN w ELSE w - 1]],
   b |-> [o \in Ix(out) |-> c]]

Params(out, in) == {Theta(out, in, w, c) : w \in WeightValues, c \in BiasValues}

(***************************************************************************)
(* GCNLayer, first definition (raw sum).                                   *)
(***************************************************************************)
RawGCNLayer_init(A, theta) ==
  [kind |-> "raw", A |-> A, linear |-> theta]

\* the layer C2 describes: nn.Linear(..., bias=False)
RawGCNLayer_forward_NoBias(self, x) ==
  IF ~MatMulOk(self.A, x) THEN Fail("RuntimeError")
  ELSE LET h == MatMulInt(self.A, x)
       IN  IF Cols(h) # Cols(self.linear.W) THEN Fail("RuntimeError")
           ELSE Ok(ToNum(LinearInt(h, self.linear.W, [o \in DOMAIN self.linear.b |-> 0])))

\* x = torch.matmul(self.A, x); x = self.linear(x)
RawGCNLayer_forward(self, x) ==
  IF ~MatMulOk(self.A, x) THEN Fail("RuntimeError")
  ELSE LET h == MatMulInt(self.A, x)
       IN  IF Cols(h) # Cols(self.linear.W) THEN Fail("RuntimeError")
           ELSE Ok(ToNum(LinearInt(h, self.linear.W, self.linear.b)))

(***************************************************************************)
(* GCNLayer, second definition (symmetric normalisation).  The constructor *)
(* stores its argument A, but computes adj_norm and degree from the global *)
(* name adj; A only gives the size of the identity.                        *)
(***************************************************************************)
Eye(n) == [i \in Ix(n) |-> [j \in Ix(n) |-> IF i = j THEN 1 ELSE 0]]

\* the + of two square tensors broadcasts a size of 1
AddOk(P, Q) == Rows(P) = Rows(Q) \/ Rows(P) = 1 \/ Rows(Q) = 1
Add(P, Q) ==
  LET n == IF Rows(P) = 1 THEN Rows(Q) ELSE Rows(P)
      at(M, i, j) == IF Rows(M) = 1 THEN M[0][0] ELSE M[i][j]
  IN  [i \in Ix(n) |-> [j \in Ix(n) |-> at(P, i, j) + at(Q, i, j)]]

\* M.sum(axis=1)
RowSum(M) ==
  [i \in DOMAIN M |->
    LET acc[k \in Ix(Cols(M))] ==
          IF k = 0 THEN M[i][0] ELSE acc[k - 1] + M[i][k]
    IN  IF Cols(M) = 0 THEN 0 ELSE acc[Cols(M) - 1]]

Diag(v) == [i \in DOMAIN v |-> [j \in DOMAIN v |-> IF i = j THEN v[i] ELSE 0]]
Sqrt(M) == [i \in DOMAIN M |-> [j \in DOMAIN M[i] |-> NumSqrt(M[i][j])]]

\* torch.inverse of a diagonal matrix: it raises when the matrix is singular
Singular(D) == \E i \in DOMAIN D : D[i][i] = Zero
Inverse(D) ==
  [i \in DOMAIN D |-> [j \in DOMAIN D |-> IF i = j THEN NumRecip(D[i][i]) ELSE Zero]]

\* the three statements that compute self.adj_norm and self.degree
Normalise(adj_global, A) ==
  IF ~AddOk(adj_global, Eye(Rows(A))) THEN Fail("RuntimeError")
  ELSE
    LET plus_eye == Add(adj_global, Eye(Rows(A)))
        root == Sqrt(Diag(RowSum(adj_global)))
    IN  IF Singular(root) THEN Fail("LinAlgError")
        ELSE
          LET degree == Inverse(root)
          IN  IF ~MatMulOk(degree, plus_eye) \/ ~MatMulOk(plus_eye, degree)
              THEN Fail("RuntimeError")
              ELSE Ok([adj_norm |-> MatMulNum(MatMulNum(degree, ToNum(plus_eye)), degree),
                       degree |-> degree])

NormGCNLayer_init(normalised, A, theta) ==
  IF ~normalised.ok THEN normalised
  ELSE Ok([kind |-> "norm", A |-> A,
           adj_norm |-> normalised.val.adj_norm,
           degree |-> normalised.val.degree,
           linear |-> theta])

\* x = torch.matmul(self.adj_norm, x); x = self.linear(x)
NormGCNLayer_forward(self, x) ==
  IF ~MatMulOk(self.adj_norm, x) THEN Fail("RuntimeError")
  ELSE LET h == MatMulNum(self.adj_norm, ToNum(x))
       IN  IF Cols(h) # Cols(self.linear.W) THEN Fail("RuntimeError")
           ELSE Ok(LinearNum(h, self.linear.W, self.linear.b))

(***************************************************************************)
(* The sign of a number, for F.relu and F.leaky_relu.  When the terms have *)
(* mixed signs the positive and the negative part are compared through     *)
(* integer bounds on sqrt(s) * Precision.                                  *)
(***************************************************************************)
Precision == 1000

RECURSIVE ISqrtIn(_, _, _)
ISqrtIn(v, lo, hi) ==
  IF lo = hi THEN lo
  ELSE LET mid == (lo + hi + 1) \div 2
       IN  IF mid * mid <= v THEN ISqrtIn(v, mid, hi) ELSE ISqrtIn(v, lo, mid - 1)
ISqrt(v) == ISqrtIn(v, 0, 46340)

RECURSIVE Lcm(_, _)
Lcm(S, a) ==
  IF S = {} THEN 1
  ELSE LET r == CHOOSE t \in S : TRUE
           l == Lcm(S \ {r}, a)
       IN  (l * a[r][2]) \div GCD(l, a[r][2])

\* bounds on Precision * (sum over S of |m_s| * sqrt(s))
RECURSIVE Bound(_, _, _, _)
Bound(S, a, l, up) ==
  IF S = {} THEN 0
  ELSE LET r == CHOOSE t \in S : TRUE
           m == Abs(a[r][1]) * (l \div a[r][2])
           root == ISqrt(r * Precision * Precision)
           exact == root * root = r * Precision * Precision
       IN  m * (IF up /\ ~exact THEN root + 1 ELSE root) + Bound(S \ {r}, a, l, up)

NumSign(a) ==
  LET pos == {r \in DOMAIN a : a[r][1] > 0}
      neg == {r \in DOMAIN a : a[r][1] < 0}
      l == Lcm(DOMAIN a, a)
  IN  IF neg = {} THEN (IF pos = {} THEN 0 ELSE 1)
      ELSE IF pos = {} THEN -1
      ELSE CHOOSE sg \in {-1, 1} :
             /\ sg = 1 => Bound(pos, a, l, FALSE) >= Bound(neg, a, l, TRUE)
             /\ sg = -1 => Bound(neg, a, l, FALSE) >= Bound(pos, a, l, TRUE)

NumScale(q, a) == NumMul(NumRat(q), a)

\* F.relu and F.leaky_relu (negative_slope = 0.01), entry by entry
relu(M) ==
  [i \in DOMAIN M |-> [j \in DOMAIN M[i] |->
     IF NumSign(M[i][j]) > 0 THEN M[i][j] ELSE Zero]]
leaky_relu(M) ==
  [i \in DOMAIN M |-> [j \in DOMAIN M[i] |->
     IF NumSign(M[i][j]) >= 0 THEN M[i][j] ELSE NumScale(<<1, 100>>, M[i][j])]]

\* F.log_softmax(x, dim=1) is row - logsumexp(row).  Its value is kept
\* symbolically, by what determines it: two rows have the same log_softmax
\* exactly when they differ by a constant, that is, when their entries
\* minus the first entry agree.
log_softmax(M) ==
  [i \in DOMAIN M |-> [j \in DOMAIN M[i] |->
     NumAdd(M[i][j], NumScale(<<-1, 1>>, M[i][0]))]]

(***************************************************************************)
(* torch_geometric.nn.GCNConv(in, out)(x, edge_index): a linear map        *)
(* without bias, then propagation along the edges with the coefficients    *)
(* of gcn_norm (one self-loop of weight 1 per node replaces the self-loops *)
(* of edge_index, deg is the in-degree with it, each edge source -> target *)
(* weighs deg[source]^-1/2 * deg[target]^-1/2), then the bias.             *)
(***************************************************************************)
EdgeCount(L, src, dst) ==
  Cardinality({e \in DOMAIN L : L[e] = <<src, dst>>})

gcn_norm(edge_index, n) ==
  LET w == [i \in Ix(n) |-> [j \in Ix(n) |->
              IF i = j THEN 1 ELSE EdgeCount(edge_index, j, i)]]
      deg == RowSum(w)
      dis == [i \in Ix(n) |-> NumRecip(NumSqrt(deg[i]))]
  IN  [i \in Ix(n) |-> [j \in Ix(n) |->
        NumMul(NumMul(dis[j], NumInt(w[i][j])), dis[i])]]

GCNConv_forward(theta, x, edge_index) ==
  IF Cols(x) # Cols(theta.W) THEN Fail("RuntimeError")
  ELSE IF \E e \in DOMAIN edge_index :
            edge_index[e][1] >= Rows(x) \/ edge_index[e][2] >= Rows(x)
       THEN Fail("IndexError")
  ELSE LET zero == [o \in DOMAIN theta.b |-> 0]
           lin == ToNum(LinearInt(x, theta.W, zero))
           agg == MatMulNum(gcn_norm(edge_index, Rows(x)), lin)
       IN  Ok([i \in DOMAIN agg |-> [o \in DOMAIN agg[i] |->
                 NumAdd(agg[i][o], NumInt(theta.b[o]))]])

(***************************************************************************)
(* extract and the graph-level GNN.                                        *)
(***************************************************************************)
\* a narrow that accepts a negative length as an empty range
NarrowOk_AnyLength(x, start, length) ==
  start <= Rows(x) /\ start + length <= Rows(x)

\* a narrow that always reads from the first row
Narrow_FromZero(x, start, length) == [i \in Ix(length) |-> x[i]]

\* x.narrow(0, start, length) raises unless 0 <= length, start + length <= rows
NarrowOk(x, start, length) ==
  start <= Rows(x) /\ length >= 0 /\ start + length <= Rows(x)
Narrow(x, start, length) == [i \in Ix(length) |-> x[start + i]]

\* M.sum(axis=0) of a tensor with `cols` columns
ColSum(M, cols) ==
  [j \in Ix(cols) |->
    LET acc[k \in Ix(Rows(M))] ==
          IF k = 0 THEN M[0][j] ELSE NumAdd(acc[k - 1], M[k][j])
    IN  IF Rows(M) = 0 THEN Zero ELSE acc[Rows(M) - 1]]

extractOk(x, idx, slices) ==
  NarrowOk(x, slices[idx], slices[idx + 1] - slices[idx])
extract(x, idx, slices) ==
  ColSum(Narrow(x, slices[idx], slices[idx + 1] - slices[idx]), Cols(x))

\* torch.concat([extract(x, idx, ptr) for idx in range(len(ptr)-1)], axis=0)
Pool(x, ptr) ==
  LET B == Rows(ptr) - 1
  IN  IF \E idx \in Ix(B) : ~extractOk(x, idx, ptr) THEN Fail("RuntimeError")
      ELSE IF B <= 0 THEN Fail("RuntimeError")
      ELSE Ok([idx \in Ix(B) |-> extract(x, idx, ptr)])

(***************************************************************************)
(* The GNN wrappers.  Three classes of the notebook are named GNN: the one *)
(* around a hand-written GCNLayer (its A argument is passed on), the one   *)
(* around a library layer, whose forward reads the global `data`, and the  *)
(* graph-level one.                                                        *)
(***************************************************************************)
RawGNN_init(A, theta) == [kind |-> "raw", layer |-> RawGCNLayer_init(A, theta)]

NormGNN_init(normalised, A, theta) ==
  LET l == NormGCNLayer_init(normalised, A, theta)
  IN  IF l.ok THEN Ok([kind |-> "norm", layer |-> l.val]) ELSE l

LibGNN_init(theta) == [kind |-> "lib", layer |-> theta]

GraphGNN_init(theta1, theta2) ==
  [kind |-> "graph", graph_layer |-> theta1, linear |-> theta2]

\* x = self.layer(x); return F.log_softmax(x, dim=1)
Softmaxed(h) == IF h.ok THEN Ok(log_softmax(h.val)) ELSE h

\* x = self.layer(x, data.edge_index): `data` is the global of the notebook
LibLayer_forward(self, x, data_global) ==
  GCNConv_forward(self.layer, x, data_global.edge_index)

Layer_forward(self, x, data_global) ==
  IF self.kind = "raw" THEN RawGCNLayer_forward(self.layer, x)
  ELSE IF self.kind = "norm" THEN NormGCNLayer_forward(self.layer, x)
  ELSE LibLayer_forward(self, x, data_global)

GNN_forward(self, x, data_global) == Softmaxed(Layer_forward(self, x, data_global))

ThetaOf(self) ==
  IF self.kind = "graph" THEN <<self.graph_layer, self.linear>>
  ELSE IF self.kind = "lib" THEN <<self.layer>>
  ELSE <<self.layer.linear>>

\* x = self.graph_layer(x, edge_index); x = F.relu(x); x = torch.concat(...)
GraphGNN_hidden(self, x, edge_index) ==
  LET c == GCNConv_forward(self.graph_layer, x, edge_index)
  IN  IF c.ok THEN Ok(relu(c.val)) ELSE c

GraphGNN_pooled(hidden, ptr) ==
  IF hidden.ok THEN Pool(hidden.val, ptr) ELSE hidden

\* x = self.linear(x); x = F.leaky_relu(x); return x.flatten()
Flatten(M) ==
  [k \in Ix(Rows(M) * Cols(M)) |-> M[k \div Cols(M)][k % Cols(M)]]

GraphGNN_output(self, pooled) ==
  IF ~pooled.ok THEN pooled
  ELSE IF Cols(pooled.val) # Cols(self.linear.W) THEN Fail("RuntimeError")
  ELSE Ok(Flatten(leaky_relu(LinearNum(pooled.val, self.linear.W, self.linear.b))))

GraphGNN_forward(self, x, edge_index, ptr) ==
  GraphGNN_output(self, GraphGNN_pooled(GraphGNN_hidden(self, x, edge_index), ptr))

(***************************************************************************)
(* The ZINC batches.  GNN(input_dim=1, mid_dim, output_dim=1): a batch has *)
(* one feature column.  A DataLoader batch lays its graphs out one after   *)
(* the other: ptr is non-decreasing from 0 to the number of nodes and no   *)
(* edge crosses a boundary.                                                *)
(***************************************************************************)
ZincInputDim == 1
ZincOutputDim == 1
MaxGraphs == 2

\* every vector of length 2..MaxGraphs+1 over 0..n
Ptrs(n) == UNION {[Ix(len) -> 0..n] : len \in 2..(MaxGraphs + 1)}

ValidPtr(ptr, n) ==
  /\ ptr[0] = 0
  /\ ptr[Rows(ptr) - 1] = n
  /\ \A k \in Ix(Rows(ptr) - 1) : ptr[k] <= ptr[k + 1]

\* the chain i - i+1 inside every graph of the batch, in both directions
ChainEdges(ptr, n) ==
  LET one == SortedSeq({p \in Pairs(n) :
                 /\ p[2] = p[1] + 1
                 /\ \E k \in Ix(Rows(ptr) - 1) : ptr[k] <= p[1] /\ p[2] < ptr[k + 1]})
  IN  one \o Flip(one)

ZincFeatures(n) == {Ones(n, ZincInputDim), Ramp(n, ZincInputDim)}

ZincBatches ==
  UNION {{Graph(n, ChainEdges(ptr, n), x, ptr) :
            ptr \in {q \in Ptrs(n) : ValidPtr(q, n)}, x \in ZincFeatures(n)} :
           n \in 1..MaxNodes}

\* the same graphs under every boundary vector, valid or not
PoolInputs ==
  UNION {{Graph(n, L, x, ptr) :
            L \in {<< >>, ChainEdges([k \in Ix(2) |-> k * n], n)},
            x \in ZincFeatures(n), ptr \in Ptrs(n)} :
           n \in 1..MaxNodes}

GraphParams ==
  {<<Theta(MidDim, ZincInputDim, w, c), Theta(ZincOutputDim, MidDim, w, c)>> :
     w \in WeightValues, c \in BiasValues}

(***************************************************************************)
(* The notebook as a state machine: its globals and the cells that act on  *)
(* them.                                                                   *)
(***************************************************************************)
VARIABLES
  data,      \* the global `data`
  adj,       \* the global `adj`
  model,     \* the global `model`
  call,      \* the last forward call of `model`: arguments, parameters, results
  exc,       \* the exception the last cell raised, "" if none
  run        \* where the running cell stands: its loop, statement, epoch, records

vars == <<data, adj, model, call, exc, run>>

Undefined == [defined |-> FALSE, val |-> << >>]
Defined(v) == [defined |-> TRUE, val |-> v]
NoModel == [kind |-> "none"]
NoCall == [done |-> FALSE]

\* no cell is running: any cell can be run next
Idle ==
  [loop |-> "none", pc |-> "idle", epoch |-> 0, batch |-> 0, batches |-> 0,
   ops |-> << >>, metrics |-> << >>]

\* data = dataset[0]; nothing else is bound yet
Init ==
  /\ data \in Datasets
  /\ adj = Undefined
  /\ model = NoModel
  /\ call = NoCall
  /\ exc = ""
  /\ run = Idle

\* adj = to_dense_adj(data.edge_index)[0]
BuildAdjStmt ==
  /\ adj' = Defined(to_dense_adj(data.edge_index))
  /\ exc' = ""
  /\ UNCHANGED <<data, model, call>>

\* model = GNN(input_dim, output_dim, A=adj), first GCNLayer
NewRawGNNStmt ==
  /\ adj.defined
  /\ \E theta \in Params(OutputDim, InputDim) :
       model' = RawGNN_init(adj.val, theta)
  /\ call' = NoCall
  /\ exc' = ""
  /\ UNCHANGED <<data, adj>>

\* model = GNN(input_dim, output_dim, A=adj), second GCNLayer; when the
\* constructor raises, `model` keeps its old binding
NewNormGNNStmt ==
  /\ adj.defined
  /\ LET normalised == Normalise(adj.val, adj.val)
     IN  \E theta \in Params(OutputDim, InputDim) :
           LET m == NormGNN_init(normalised, adj.val, theta)
           IN  /\ model' = IF m.ok THEN m.val ELSE model
               /\ call' = IF m.ok THEN NoCall ELSE call
               /\ exc' = m.exc
  /\ UNCHANGED <<data, adj>>

\* model = GNN(input_dim, output_dim, layer=GCNConv)
NewLibGNNStmt ==
  /\ \E theta \in Params(OutputDim, InputDim) : model' = LibGNN_init(theta)
  /\ call' = NoCall
  /\ exc' = ""
  /\ UNCHANGED <<data, adj>>

\* model = GNN(input_dim=1, mid_dim, output_dim=1, layer=GCNConv)
NewGraphGNNStmt ==
  /\ \E th \in GraphParams : model' = GraphGNN_init(th[1], th[2])
  /\ call' = NoCall
  /\ exc' = ""
  /\ UNCHANGED <<data, adj>>

CallRecord(x, edge_index, ptr, self, hidden, pooled, y) ==
  [done |-> TRUE, x |-> x, edge_index |-> edge_index, ptr |-> ptr,
   theta |-> ThetaOf(self), hidden |-> hidden, pooled |-> pooled, y |-> y]

\* y_hat = model(data.x)
ForwardStmt ==
  /\ model.kind \in {"raw", "norm", "lib"}
  /\ LET h == Layer_forward(model, data.x, data)
         y == Softmaxed(h)
     IN  /\ call' = CallRecord(data.x, << >>, << >>, model, h, Ok(<< >>), y)
         /\ exc' = y.exc
  /\ UNCHANGED <<data, adj, model>>

\* out = model(data.x.float(), data.edge_index, data.ptr)
ForwardGraphOn(batch) ==
  /\ model.kind = "graph"
  /\ LET h == GraphGNN_hidden(model, batch.x, batch.edge_index)
         p == GraphGNN_pooled(h, batch.ptr)
         y == GraphGNN_output(model, p)
     IN  /\ call' = CallRecord(batch.x, batch.edge_index, batch.ptr, model, h, p, y)
         /\ exc' = y.exc
  /\ UNCHANGED <<data, adj, model>>

ForwardGraphStmt == ForwardGraphOn(data)

\* an optimiser that had the stored adjacency among its parameters
WithTheta_AdjacencyToo(self, th) ==
  IF self.kind = "graph" THEN [self EXCEPT !.graph_layer = th[1], !.linear = th[2]]
  ELSE IF self.kind = "lib" THEN [self EXCEPT !.layer = th[1]]
  ELSE [self EXCEPT !.layer.linear = th[1],
                    !.layer.A = [i \in DOMAIN @ |-> [j \in DOMAIN @[i] |-> 0]]]

\* optimiser.step(): the parameters of `model` take new values
WithTheta(self, th) ==
  IF self.kind = "graph" THEN [self EXCEPT !.graph_layer = th[1], !.linear = th[2]]
  ELSE IF self.kind = "lib" THEN [self EXCEPT !.layer = th[1]]
  ELSE [self EXCEPT !.layer.linear = th[1]]

ParamsOf(self) ==
  IF self.kind = "graph" THEN GraphParams
  ELSE {<<th>> : th \in Params(OutputDim, InputDim)}

StepStmt ==
  /\ model.kind # "none"
  /\ \E th \in ParamsOf(model) \ {ThetaOf(model)} : model' = WithTheta(model, th)
  /\ exc' = ""
  /\ UNCHANGED <<data, adj, call>>

\* for batch in loader: data = batch.to(device)
NextBatchStmt ==
  /\ data' \in ZincBatches
  /\ exc' = ""
  /\ UNCHANGED <<adj, model, call>>

\* Each statement as a cell of its own, run while no loop is running.
BuildAdj == run.pc = "idle" /\ BuildAdjStmt /\ UNCHANGED run
NewRawGNN == run.pc = "idle" /\ NewRawGNNStmt /\ UNCHANGED run
NewNormGNN == run.pc = "idle" /\ NewNormGNNStmt /\ UNCHANGED run
NewLibGNN == run.pc = "idle" /\ NewLibGNNStmt /\ UNCHANGED run
NewGraphGNN == run.pc = "idle" /\ NewGraphGNNStmt /\ UNCHANGED run
Forward == run.pc = "idle" /\ ForwardStmt /\ UNCHANGED run
ForwardGraph == run.pc = "idle" /\ ForwardGraphStmt /\ UNCHANGED run
Step == run.pc = "idle" /\ StepStmt /\ UNCHANGED run
NextBatch == run.pc = "idle" /\ NextBatchStmt /\ UNCHANGED run

\* The node-classification sections on the Cora graph.
Next == BuildAdj \/ NewRawGNN \/ NewNormGNN \/ NewLibGNN \/ Forward \/ Step

Spec == Init /\ [][Next]_vars

\* The first section alone: the dense adjacency and the raw-sum GCNLayer.
NextRaw == BuildAdj \/ NewRawGNN \/ Forward \/ Step

SpecRaw == Init /\ [][NextRaw]_vars

\* The graph-level section: the loop rebinds `data` to each batch, while a
\* library-layer GNN built earlier can still be called.
InitZinc ==
  /\ data \in ZincBatches
  /\ adj = Undefined
  /\ model = NoModel
  /\ call = NoCall
  /\ exc = ""
  /\ run = Idle

NextZinc ==
  NextBatch \/ NewLibGNN \/ NewGraphGNN \/ Forward \/ ForwardGraph \/ Step

SpecZinc == InitZinc /\ [][NextZinc]_vars

\* The graph-level forward pass on one batch, whatever its boundary vector.
InitPool ==
  /\ data \in PoolInputs
  /\ adj = Undefined
  /\ model = NoModel
  /\ call = NoCall
  /\ exc = ""
  /\ run = Idle

NextPool == NewGraphGNN \/ ForwardGraph

SpecPool == InitPool /\ [][NextPool]_vars

(***************************************************************************)
(* Vocabulary of the properties: sums and counts written over sets, not    *)
(* by the code's loops.                                                    *)
(***************************************************************************)
RECURSIVE SumInt(_, _)
SumInt(S, f) ==
  IF S = {} THEN 0
  ELSE LET e == CHOOSE t \in S : TRUE IN f[e] + SumInt(S \ {e}, f)

RECURSIVE SumNum(_, _)
SumNum(S, f) ==
  IF S = {} THEN Zero
  ELSE LET e == CHOOSE t \in S : TRUE IN NumAdd(f[e], SumNum(S \ {e}, f))

Occurs(L, i, j) == \E e \in DOMAIN L : L[e] = <<i, j>>
NoPairTwice(L) == \A e, f \in DOMAIN L : L[e] = L[f] => e = f
BothDirections(L) == \A e \in DOMAIN L : Occurs(L, L[e][2], L[e][1])

CallOf(kind) == call.done /\ model.kind = kind
TheLinear == call.theta[1]

\* C1: in the normalised GCNLayer the degree that normalises node i is the
\* row sum of A + I, and adj_norm is D^-1/2 (A + I) D^-1/2 for that D.
C1_DegreeIsRowSumOfAPlusI ==
  model.kind = "norm" =>
    LET A == model.layer.A
        tilde == [i \in DOMAIN A |-> [j \in DOMAIN A |->
                    A[i][j] + (IF i = j THEN 1 ELSE 0)]]
        d == [i \in DOMAIN A |-> SumInt(DOMAIN A, tilde[i])]
        dis == [i \in DOMAIN A |-> NumRecip(NumSqrt(d[i]))]
    IN  \A i \in DOMAIN A :
          /\ model.layer.degree[i][i] = dis[i]
          /\ \A j \in DOMAIN A :
                model.layer.adj_norm[i][j] =
                  NumMul(NumMul(dis[i], NumInt(tilde[i][j])), dis[j])

\* what the raw-sum claim and its amendment compare the layer's output with
RawExpected(withBias) ==
  LET A == model.layer.A
      x == call.x
      W == TheLinear.W
      b == TheLinear.b
      ax == [i \in DOMAIN A |-> [k \in Ix(Cols(x)) |->
               SumInt(DOMAIN x, [j \in DOMAIN x |-> A[i][j] * x[j][k]])]]
  IN  [i \in DOMAIN A |-> [o \in DOMAIN W |->
        NumInt(SumInt(DOMAIN W[o], [k \in DOMAIN W[o] |-> ax[i][k] * W[o][k]])
               + (IF withBias THEN b[o] ELSE 0))]]

\* C2 as stated: the raw-sum layer returns exactly (A X) W, nothing added.
C2_RawIsAXW ==
  (CallOf("raw") /\ call.hidden.ok) => call.hidden.val = RawExpected(FALSE)

\* C2 as amended: the raw-sum layer returns (A X) W^T + b, the bias of
\* nn.Linear added to every row.
C2_RawIsAXWPlusBias ==
  (CallOf("raw") /\ call.hidden.ok) => call.hidden.val = RawExpected(TRUE)

C2_Witness ==
  /\ CallOf("raw") /\ call.hidden.ok
  /\ \E o \in DOMAIN TheLinear.b : TheLinear.b[o] # 0
  /\ \E i \in DOMAIN call.hidden.val : \E j \in DOMAIN call.x :
       model.layer.A[i][j] > 0 /\ call.x[j][0] > 0

\* C4 as stated: the adjacency is a symmetric 0/1 matrix with A[i][j] = 1
\* exactly when (i, j) or (j, i) is in the edge list.
SymmetricZeroOne(A, L) ==
  \A i, j \in DOMAIN A :
    /\ A[i][j] = (IF Occurs(L, i, j) \/ Occurs(L, j, i) THEN 1 ELSE 0)
    /\ A[i][j] = A[j][i]

C4_SymmetricZeroOne ==
  adj.defined => SymmetricZeroOne(adj.val, data.edge_index)

\* C4 as amended: that holds exactly for the edge lists that hold no pair
\* twice and hold (j, i) whenever they hold (i, j).
C4_SymmetricIffStoredBothWays ==
  adj.defined =>
    (SymmetricZeroOne(adj.val, data.edge_index)
       <=> (NoPairTwice(data.edge_index) /\ BothDirections(data.edge_index)))

C4_Witness ==
  /\ adj.defined
  /\ Len(data.edge_index) >= 4
  /\ NoPairTwice(data.edge_index) /\ BothDirections(data.edge_index)

\* C5 as stated: a second occurrence of a pair leaves the matrix as it is
\* with one occurrence.
LastIsRepeat(L) == Len(L) >= 2 /\ \E e \in 1..(Len(L) - 1) : L[e] = L[Len(L)]
Front(L) == SubSeq(L, 1, Len(L) - 1)

C5_DuplicateAbsorbed ==
  (adj.defined /\ LastIsRepeat(data.edge_index)) =>
    adj.val = to_dense_adj(Front(data.edge_index))

\* C5 as amended: a second occurrence of the pair (i, j) adds one to
\* A[i][j] and changes no other entry: entries are counts.
C5_DuplicateAddsOne ==
  (adj.defined /\ LastIsRepeat(data.edge_index)) =>
    LET once == to_dense_adj(Front(data.edge_index))
        last == data.edge_index[Len(data.edge_index)]
    IN  /\ DOMAIN adj.val = DOMAIN once
        /\ \A i, j \in DOMAIN once :
              adj.val[i][j] = once[i][j] + (IF <<i, j>> = last THEN 1 ELSE 0)

C5_Witness ==
  adj.defined /\ LastIsRepeat(data.edge_index) /\ Len(data.edge_index) >= 5

\* C3: for a batch with a valid boundary vector ptr (from 0, non-decreasing,
\* up to the number of rows), pooling yields one row per graph, and row k
\* is the sum of the node rows i with ptr[k] <= i < ptr[k+1] (a zero row
\* when there is none).
C3_PoolSumsEachRange ==
  (CallOf("graph") /\ call.hidden.ok /\ ValidPtr(call.ptr, Rows(call.x))) =>
    LET X == call.hidden.val
        ptr == call.ptr
        B == Rows(ptr) - 1
    IN  /\ call.pooled.ok
        /\ DOMAIN call.pooled.val = Ix(B)
        /\ \A k \in Ix(B) :
              /\ DOMAIN call.pooled.val[k] = Ix(Cols(X))
              /\ \A c \in Ix(Cols(X)) :
                    call.pooled.val[k][c] =
                      SumNum({i \in DOMAIN X : ptr[k] <= i /\ i < ptr[k + 1]},
                             [i \in DOMAIN X |-> X[i][c]])

\* two graphs, one of several nodes with non-zero rows, pooled
C3_Witness ==
  /\ CallOf("graph") /\ call.hidden.ok /\ ValidPtr(call.ptr, Rows(call.x))
  /\ call.pooled.ok
  /\ Rows(call.ptr) = 3
  /\ \E k \in Ix(2) :
       /\ call.ptr[k + 1] - call.ptr[k] >= 2
       /\ call.ptr[k] >= 1
       /\ call.pooled.val[k][0] # Zero
       /\ call.hidden.val[0][0] # Zero

\* C6: for every undirected graph, isolated nodes included, constructing
\* the normalised GCNLayer succeeds (no inverse square root of a zero
\* degree), and adj_norm is symmetric with a positive diagonal.
Undirected(L) ==
  \A e \in DOMAIN L : EdgeCount(L, L[e][1], L[e][2]) = EdgeCount(L, L[e][2], L[e][1])

C6_NormalisedInitSucceeds ==
  Undirected(data.edge_index) =>
    /\ exc # "LinAlgError"
    /\ model.kind = "norm" =>
         \A i \in DOMAIN model.layer.adj_norm :
           /\ NumSign(model.layer.adj_norm[i][i]) > 0
           /\ \A j \in DOMAIN model.layer.adj_norm :
                 model.layer.adj_norm[i][j] = model.layer.adj_norm[j][i]

\* C7: a forward call is a function of its arguments and the parameters:
\* a call of the same model with the same x (and, for the graph-level GNN,
\* the same edge_index and ptr) and the same parameters returns what the
\* call before it returned, whatever cells ran in between.
C7_ForwardIsPure ==
  [][(/\ call.done /\ call'.done
      /\ call'.x = call.x
      /\ call'.edge_index = call.edge_index
      /\ call'.ptr = call.ptr
      /\ call'.theta = call.theta)
     => call'.y = call.y]_vars

\* C8: the normalised layer is permutation-equivariant: built with p(A)
\* and applied to p(X) it returns the rows of the output for A and X,
\* permuted by p.
Perms(n) == {p \in [Ix(n) -> Ix(n)] : \A i, j \in Ix(n) : p[i] = p[j] => i = j}
PermMat(A, p) == [i \in DOMAIN A |-> [j \in DOMAIN A |-> A[p[i]][p[j]]]]
PermRows(X, p) == [i \in DOMAIN X |-> X[p[i]]]

C8_PermutationEquivariant ==
  (CallOf("norm") /\ call.hidden.ok /\ adj.defined) =>
    \A p \in Perms(Rows(call.x)) :
      LET pA == PermMat(model.layer.A, p)
          built == NormGCNLayer_init(Normalise(adj.val, pA), pA, TheLinear)
      IN  /\ built.ok
          /\ NormGCNLayer_forward(built.val, PermRows(call.x, p))
               = Ok(PermRows(call.hidden.val, p))

\* C9: on the 5-node ring with X = ones and weight 1, bias 0, the raw-sum
\* layer outputs 2 for every node; the normalised layer uses degree 3 for
\* every node and outputs 1 for every node.  (The ring is stored as PyG
\* stores an undirected graph, each edge in both directions; the first
\* output column carries the weight 1.)
IsRing ==
  /\ data.edge_index = RingEdges \o Flip(RingEdges)
  /\ data.x = Ones(RingNodes, InputDim)

IdentityLike == TheLinear = Theta(OutputDim, InputDim, 1, 0)

C9_RingScenario ==
  (call.done /\ IsRing /\ call.x = data.x /\ IdentityLike) =>
    /\ model.kind = "raw" =>
         /\ call.hidden.ok
         /\ \A i \in Ix(RingNodes) : call.hidden.val[i][0] = NumInt(2)
    /\ model.kind = "norm" =>
         /\ call.hidden.ok
         /\ \A i \in Ix(RingNodes) :
               /\ model.layer.degree[i][i] = NumRecip(NumSqrt(3))
               /\ call.hidden.val[i][0] = NumInt(1)

\* C10: when ptr[k] > ptr[k+1] for some k, the graph-level forward pass
\* ends in an error: no pooled tensor and no output, not even for the
\* graphs whose ranges are valid.
NonMonotone(ptr) == \E k \in Ix(Rows(ptr) - 1) : ptr[k] > ptr[k + 1]

C10_NonMonotonePtrRaises ==
  (CallOf("graph") /\ NonMonotone(call.ptr)) =>
    /\ ~call.pooled.ok
    /\ ~call.y.ok
    /\ exc # ""

\* the first range is a valid one, the second runs backwards
C10_Witness ==
  /\ CallOf("graph") /\ call.hidden.ok
  /\ Rows(call.ptr) = 3
  /\ call.ptr[0] = 0 /\ call.ptr[1] >= 2 /\ call.ptr[1] <= Rows(call.x)
  /\ call.ptr[2] < call.ptr[1]

(***************************************************************************)
(* Loading the data: data = dataset[0]; data.validate(raise_on_error=True) *)
(* and then the cell that builds adj.  A notebook run stops at the first   *)
(* cell that raises.                                                       *)
(***************************************************************************)
\* pairs with an endpoint outside 0 .. n-1
BadPairs(n) == {<<-1, 0>>, <<0, -1>>, <<n, 0>>, <<0, n>>, <<n, n>>}

\* what dataset[0] can hold before it is validated
LoadedData ==
  Datasets \cup
  UNION {{[d EXCEPT !.edge_index = d.edge_index \o <<b>>] : b \in BadPairs(d.num_nodes)} :
           d \in Datasets}

MinIndex(L) ==
  CHOOSE m \in {L[e][1] : e \in DOMAIN L} \cup {L[e][2] : e \in DOMAIN L} :
    \A e \in DOMAIN L : L[e][1] >= m /\ L[e][2] >= m

\* a validate that checks no upper end
validate_NoUpperCheck(d) ==
  IF Len(d.edge_index) > 0 /\ MinIndex(d.edge_index) < 0 THEN Fail("ValueError")
  ELSE Ok(TRUE)

\* Data.validate(raise_on_error=True): edge_index.min() < 0 and
\* edge_index.max() >= num_nodes raise a ValueError
validate(d) ==
  IF Len(d.edge_index) > 0 /\ MinIndex(d.edge_index) < 0 THEN Fail("ValueError")
  ELSE IF Len(d.edge_index) > 0 /\ MaxIndex(d.edge_index) >= d.num_nodes
       THEN Fail("ValueError")
  ELSE Ok(TRUE)

Loading == [Idle EXCEPT !.loop = "load", !.pc = "validate"]

InitLoad ==
  /\ data \in LoadedData
  /\ adj = Undefined
  /\ model = NoModel
  /\ call = NoCall
  /\ exc = ""
  /\ run = Loading

\* data.validate(raise_on_error=True)
Validate ==
  /\ run.pc = "validate"
  /\ LET v == validate(data)
     IN  /\ exc' = v.exc
         /\ run' = [run EXCEPT !.pc = IF v.ok THEN "build" ELSE "halted"]
  /\ UNCHANGED <<data, adj, model, call>>

\* the first adj = to_dense_adj(data.edge_index)[0] of the run
LoadBuildAdj ==
  /\ run.pc = "build"
  /\ BuildAdjStmt
  /\ run' = Idle

NextLoad == Validate \/ LoadBuildAdj \/ BuildAdj \/ NewRawGNN \/ Forward

SpecLoad == InitLoad /\ [][NextLoad]_vars

\* C11: an edge list with an endpoint outside [0, num_nodes) is a fatal
\* input error: validation raises, the run stops there, and no adjacency
\* matrix is ever built from such an edge list.
OutOfRange(d) ==
  \E e \in DOMAIN d.edge_index : \E k \in 1..2 :
    d.edge_index[e][k] < 0 \/ d.edge_index[e][k] >= d.num_nodes

C11_OutOfRangeIsFatal ==
  OutOfRange(data) =>
    /\ ~adj.defined
    /\ run.pc \in {"validate", "halted"}
    /\ run.pc = "halted" => exc = "ValueError"

\* validation has rejected an edge list whose bad endpoint is num_nodes
C11_Witness ==
  /\ OutOfRange(data)
  /\ run.pc = "halted" /\ exc = "ValueError"
  /\ Len(data.edge_index) >= 3
  /\ MinIndex(data.edge_index) >= 0

\* C14: for every graph, also one whose highest-indexed nodes have no
\* edge, the adjacency built from the edge list is num_nodes x num_nodes,
\* so the raw-sum layer's A x is well-formed and the output has one row
\* per node.
C14_AdjacencyIsNumNodesSquare ==
  /\ adj.defined =>
       /\ Rows(adj.val) = data.num_nodes
       /\ \A i \in DOMAIN adj.val : Rows(adj.val[i]) = data.num_nodes
  /\ CallOf("raw") =>
       /\ call.hidden.ok
       /\ Rows(call.hidden.val) = data.num_nodes

(***************************************************************************)
(* The training cells.  Each builds its model and then runs                *)
(* for epoch in range(n_epochs), one statement at a time; a statement that *)
(* raises ends the run.  run.ops lists the statements the current epoch    *)
(* has executed, run.metrics the keys written to val_accuracy/model_rmses. *)
(***************************************************************************)
MaxEpochs == 2
MaxBatches == 2

\* the graphs the training cells are run on: validated, every edge stored
\* once in each direction
TrainSets ==
  {d \in Datasets :
     /\ d.num_nodes = MaxNodes
     /\ d.x = Ramp(MaxNodes, InputDim)
     /\ NoPairTwice(d.edge_index) /\ BothDirections(d.edge_index)
     /\ ~Occurs(d.edge_index, 0, 0)}

\* the batches of loader (MaxGraphs graphs each) and of valloader (one graph)
LoaderBatches ==
  {b \in ZincBatches :
     /\ b.num_nodes = MaxNodes /\ b.x = Ramp(MaxNodes, ZincInputDim)
     /\ Rows(b.ptr) = MaxGraphs + 1}
ValBatches ==
  {b \in ZincBatches :
     /\ b.num_nodes = MaxNodes /\ b.x = Ones(MaxNodes, ZincInputDim)
     /\ Rows(b.ptr) = 2}

\* a loop body with optimiser.step() written before loss.backward()
NextPc_StepBeforeBackward(loop, pc, more) ==
  CASE pc = "batch" -> "zero_grad"
    [] pc = "zero_grad" -> "forward"
    [] pc = "forward" -> "loss"
    [] pc = "loss" -> "step"
    [] pc = "step" -> "backward"
    [] pc = "backward" -> IF loop = "zinc" /\ more THEN "batch" ELSE "eval"
    [] pc = "eval" -> "metric"
    [] pc = "metric" -> "epoch"

\* the statement after `pc`; `more` tells whether the loader has a batch left
NextPc(loop, pc, more) ==
  CASE pc = "batch" -> "zero_grad"
    [] pc = "zero_grad" -> "forward"
    [] pc = "forward" -> "loss"
    [] pc = "loss" -> "backward"
    [] pc = "backward" -> "step"
    [] pc = "step" -> IF loop = "zinc" /\ more THEN "batch" ELSE "eval"
    [] pc = "eval" -> "metric"
    [] pc = "metric" -> "epoch"

\* the first statement of an epoch
EpochStart(loop) == IF loop = "zinc" THEN "batch" ELSE "zero_grad"

Started(loop, batches) ==
  [loop |-> loop, pc |-> EpochStart(loop), epoch |-> 0, batch |-> 0,
   batches |-> batches, ops |-> << >>, metrics |-> << >>]

Moved(op, more) ==
  [run EXCEPT !.pc = NextPc(run.loop, op, more), !.ops = Append(@, op)]

Halted == [run EXCEPT !.pc = "halted"]

\* model = GNN(..., A=adj); optimiser = ...; val_accuracy = {...}
TrainRaw ==
  /\ run.pc = "idle"
  /\ NewRawGNNStmt
  /\ run' = Started("node", 1)

TrainNorm ==
  /\ run.pc = "idle"
  /\ NewNormGNNStmt
  /\ run' = IF exc' = "" THEN Started("node", 1) ELSE Halted

TrainLib ==
  /\ run.pc = "idle"
  /\ NewLibGNNStmt
  /\ run' = Started("node", 1)

\* model = GNN(input_dim=1, mid_dim=8, output_dim=1, layer=GCNConv); the
\* loader holds 1 .. MaxBatches batches
TrainGraph ==
  /\ run.pc = "idle"
  /\ NewGraphGNNStmt
  /\ \E n \in 1..MaxBatches : run' = Started("zinc", n)

\* for batch in loader: data = batch.to(device)
TrainBatch ==
  /\ run.pc = "batch"
  /\ data' \in LoaderBatches
  /\ exc' = ""
  /\ UNCHANGED <<adj, model, call>>
  /\ run' = [run EXCEPT !.pc = NextPc(run.loop, "batch", FALSE), !.batch = @ + 1]

\* optimiser.zero_grad()
ZeroGrad ==
  /\ run.pc = "zero_grad"
  /\ run' = Moved("zero_grad", FALSE)
  /\ UNCHANGED <<data, adj, model, call, exc>>

\* y_hat = model(data.x)[data.train_mask]  /  out = model(data.x.float(), ...)
TrainForward ==
  /\ run.pc = "forward"
  /\ \/ ForwardStmt
     \/ ForwardGraphStmt
  /\ run' = IF exc' = "" THEN Moved("forward", FALSE) ELSE Halted

\* loss = F.cross_entropy(y_hat, train_y)  /  F.mse_loss(out, data.y)
Loss ==
  /\ run.pc = "loss"
  /\ run' = Moved("loss", FALSE)
  /\ UNCHANGED <<data, adj, model, call, exc>>

\* loss.backward()
Backward ==
  /\ run.pc = "backward"
  /\ run' = Moved("backward", FALSE)
  /\ UNCHANGED <<data, adj, model, call, exc>>

\* optimiser.step()
TrainStep ==
  /\ run.pc = "step"
  /\ StepStmt
  /\ run' = Moved("step", run.batch < run.batches)

\* y_hat = model(data.x)[data.val_mask]  /  model(batch.x.float(), ...) for
\* batch in valloader (the comprehension's batch is local to it)
EvalForward ==
  /\ run.pc = "eval"
  /\ \/ ForwardStmt
     \/ \E batch \in ValBatches : ForwardGraphOn(batch)
  /\ run' = IF exc' = "" THEN Moved("eval", FALSE) ELSE Halted

\* val_accuracy[epoch] = ...  /  model_rmses[epoch] = ...
RecordMetric ==
  /\ run.pc = "metric"
  /\ run' = [Moved("metric", FALSE) EXCEPT !.metrics = Append(@, run.epoch)]
  /\ UNCHANGED <<data, adj, model, call, exc>>

\* for epoch in range(n_epochs)
NextEpoch ==
  /\ run.pc = "epoch"
  /\ run' = IF run.epoch + 1 < MaxEpochs
            THEN [run EXCEPT !.pc = EpochStart(run.loop), !.epoch = @ + 1,
                             !.batch = 0, !.ops = << >>]
            ELSE [run EXCEPT !.pc = "done"]
  /\ UNCHANGED <<data, adj, model, call, exc>>

NextTrain ==
  \/ BuildAdj \/ TrainRaw \/ TrainNorm \/ TrainLib \/ TrainGraph
  \/ TrainBatch \/ ZeroGrad \/ TrainForward \/ Loss \/ Backward \/ TrainStep
  \/ EvalForward \/ RecordMetric \/ NextEpoch

InitTrain ==
  /\ data \in TrainSets
  /\ adj = Undefined
  /\ model = NoModel
  /\ call = NoCall
  /\ exc = ""
  /\ run = Idle

SpecTrain == InitTrain /\ [][NextTrain]_vars

\* C12: in every training loop each iteration runs zero_grad, the training
\* forward pass, the loss, backward and exactly one optimiser step, in this
\* order; the validation forward pass of an epoch starts only after the
\* epoch's steps; the parameters a forward pass has read are still the
\* model's when the pass has ended (no step during it); each epoch writes
\* exactly one metric, under its epoch index.
IterOps == <<"zero_grad", "forward", "loss", "backward", "step">>

Training == run.loop \in {"node", "zinc"}

C12_StepsBetweenPasses ==
  Training =>
    LET ops == run.ops
        n == Len(ops)
    IN  /\ \A i \in 1..n :
              /\ ops[i] \notin {"eval", "metric"} =>
                    ops[i] = IterOps[((i - 1) % Len(IterOps)) + 1]
              /\ ops[i] = "eval" =>
                    /\ i = Len(IterOps) * run.batches + 1
                    /\ \A j \in 1..(i - 1) : ops[j] \notin {"eval", "metric"}
              /\ ops[i] = "metric" => i = n /\ i > 1 /\ ops[i - 1] = "eval"
        /\ run.pc \in {"loss", "backward", "step", "metric"} =>
              call.done /\ call.theta = ThetaOf(model)
        /\ run.metrics = [k \in 1..Len(run.metrics) |-> k - 1]
        /\ Len(run.metrics) =
              run.epoch + (IF n > 0 /\ ops[n] = "metric" THEN 1 ELSE 0)
        /\ run.pc = "done" => Len(run.metrics) = MaxEpochs

\* the ZINC loop has finished its epochs, several batches in each
C12_Witness ==
  /\ run.loop = "zinc" /\ run.batches >= 2
  /\ run.pc = "done"
  /\ Len(run.metrics) = MaxEpochs
  /\ Len(run.ops) = Len(IterOps) * run.batches + 2

\* C13: a forward pass of either GCNLayer leaves the stored adjacency
\* (A, adj_norm, degree) and the parameters as they are; over a training
\* run the stored adjacency never changes, and the model changes only in
\* the optimiser step, which changes the parameters.
SameAdjacency(l, m) ==
  /\ m.A = l.A
  /\ l.kind = "norm" => m.adj_norm = l.adj_norm /\ m.degree = l.degree

C13_OnlyStepChangesParameters ==
  [][(Training /\ model.kind \in {"raw", "norm"}) =>
       /\ model'.kind = model.kind
       /\ SameAdjacency(model.layer, model'.layer)
       /\ run.pc \in {"forward", "eval"} => model' = model
       /\ model' # model =>
             run.pc = "step" /\ ThetaOf(model') # ThetaOf(model)]_vars

\* a normalised GCNLayer has been trained to the end
C13_Witness ==
  /\ run.loop = "node" /\ run.pc = "done"
  /\ model.kind = "norm"
  /\ call.done /\ call.hidden.ok
  /\ \E i, j \in DOMAIN model.layer.A : model.layer.A[i][j] # 0

====
